---- MODULE Spec2Model ----
(***************************************************************************)
(* Model of the batch-gradient engine of neuralnet/batcher.go: the         *)
(* gradientCache (two free pools of reusable gradient buffers, each with   *)
(* its own mutex) and the Batcher (Start/Stop of a worker pool, and the    *)
(* single-threaded and parallel paths of batch).                            *)
(*                                                                         *)
(* Buffers are identified by the order of their fresh allocation: plain    *)
(* buffer k is the k-th result of autofunc.NewGradient, R buffer k the     *)
(* k-th result of autofunc.NewRGradient.  gradVal[k] / rgradVal[k] is the  *)
(* content of buffer k, a vector of NumVars integers.  0 stands for nil.   *)
(* A Go runtime panic (index out of range, close of a closed channel)      *)
(* sets fault; the process is dead from then on and no step is taken.      *)
(***************************************************************************)
EXTENDS Integers, Sequences, FiniteSets, Bags, TLC

VARIABLES
    \* gradientCache (batcher.go:210-216)
    gradients,      \* g.gradients: the plain free pool, a sequence of buffer ids
    rGradients,     \* g.rGradients: the R-gradient free pool
    gradsLock,      \* g.gradsLock: 0 when free, else the routine holding it
    rgradsLock,     \* g.rgradsLock
    gradVal,        \* contents of every plain buffer ever allocated
    rgradVal,       \* contents of every R buffer ever allocated
    fault,          \* a runtime panic has killed the process
    \* direct users of the cache (the concurrent owners of the stress property)
    ownerPc,        \* position of each owner inside Alloc/AllocR/Free/FreeR
    ownerRes,       \* the local res / gr of the call an owner is inside
    ownerHeld,      \* plain buffers an owner was handed and has not freed
    ownerHeldR,     \* R buffers an owner was handed and has not freed
    \* Batcher (batcher.go:16-27) and the environment it runs in
    batchSize,      \* b.batchSize
    maxProcs,       \* runtime.GOMAXPROCS(0)
    reqChan,        \* b.reqChan: 0 (nil) or the channel pair made by a Start
    respChan,       \* b.respChan
    lastGradResult, \* b.lastGradResult: 0 (nil) or a plain buffer
    lastGradRResult,\* b.lastGradRResult: 0 (nil) or an R buffer
    chans,          \* the channel pairs made so far: request channel closed?,
                    \* response channel capacity and buffered responses; and
                    \* whether Stop has been called on the pair (history)
    workers,        \* the goroutines launched by Start, a bag of their states
    disps,          \* the dispatcher goroutines of batch that have requests left
    \* the caller inside batch
    callerPc,       \* "idle" between calls, else the position inside batch
    path,           \* which branch of batch the call runs: "single" or "parallel"
    samples,        \* s.Inputs of the call
    rv,             \* rv # nil
    idx,            \* the loop variable i
    gradOut,        \* gradOut, 0 for nil
    rgradOut,       \* rgradOut, 0 for nil
    resp,           \* resp of the current iteration
    got,            \* the requests whose responses this call has consumed, in order
    \* history
    nReqs,          \* samples passed to batch so far, over all calls
    nRReqs,         \* samples passed to BatchRGradient so far
    \* ConvGrowLayer (part_000:50-58): the one layer c that the program holds
    output,         \* c.output, a Tensor3
    downstream,     \* c.downstream, a Tensor3 or nil
    convLayer,      \* c.convLayer: the inner layer's output tensor, its number
                    \* of filters and whether its downstream gradient is the
                    \* storage of c.convDownstream
    convDownstream, \* c.convDownstream, a Tensor3
    inverseStride,  \* c.inverseStride
    growPc,         \* "none": no layer; "ready"; "fwd" / "bwd": inside the loop
                    \* of PropagateForward / PropagateBackward
    iter,           \* iterations of the loop body done by the call under way
    err,            \* DeserializeConvGrowLayer returned a non-nil error
    \* history
    done,           \* the last call that finished on c: "", "forward", "backward"
    written,        \* how often the running scatter has set each cell of convDownstream
    innerRead       \* the gradient the inner layer's last backward pass read

cacheVars == <<gradients, rGradients, gradsLock, rgradsLock, gradVal, rgradVal, fault>>
ownerVars == <<ownerPc, ownerRes, ownerHeld, ownerHeldR>>
batcherVars == <<batchSize, maxProcs, reqChan, respChan, lastGradResult, lastGradRResult,
                 chans, workers, disps>>
callerVars == <<callerPc, path, samples, rv, idx, gradOut, rgradOut, resp, got>>
histVars == <<nReqs, nRReqs>>
growVars == <<output, downstream, convLayer, convDownstream, inverseStride, growPc,
              iter, err, done, written, innerRead>>
vars == <<cacheVars, ownerVars, batcherVars, callerVars, histVars, growVars>>

-----------------------------------------------------------------------------
\* Bounds of the model.

\* number of concurrent direct users of the cache
NumOwners == 2
\* buffers of both kinds that the owners together hold at a time
MaxHeld == 2
\* fresh buffers of one kind the cache allocates in a run of the cache users
MaxBufs == 2
\* length of the parameter list g.variables: components of a buffer
NumVars == 2
\* Start calls that make channels
MaxStarts == 2
\* samples passed to BatchRGradient over all calls on one Batcher
MaxRRequests == 2
\* samples passed to batch over all calls on one Batcher that can start workers
MaxRequests == 3
\* samples passed to batch over all calls on one Batcher that cannot start
\* workers, whose calls all run on the single-threaded branch
MaxSingleRequests == 4

\* largest InverseStride of a ConvGrowParams, largest stride field of a
\* serialized layer
MaxStride == 2
\* largest FilterCount of a ConvGrowParams
MaxFilters == 2
\* largest width and height of the inner convolution's output
MaxInner == 2

Owners == 1..NumOwners

\* the batch sizes given to NewBatcher
BatchSizes == {1, 2, 3}
\* the values of runtime.GOMAXPROCS(0)
ProcCounts == {1, 2}

-----------------------------------------------------------------------------
\* Tensor3 and the inner convolution layer.

\* a nil *Tensor3
NoTensor == [nil |-> TRUE, Width |-> 0, Height |-> 0, Depth |-> 0, Data |-> <<>>]

\* NewTensor3(w, h, d): zero Data of length w*h*d
NewTensor3(w, h, d) ==
    [nil |-> FALSE, Width |-> w, Height |-> h, Depth |-> d,
     Data |-> [i \in 1..(w * h * d) |-> 0]]

\* the place of element (x, y, z) in t.Data, counted from 0
Index(t, x, y, z) == (y * t.Width + x) * t.Depth + z

\* indexing t.Data at i, counted from 0, does not panic
InRange(t, i) == i \in 0..(Len(t.Data) - 1)

\* t.Get(x, y, z)
Get(t, x, y, z) == t.Data[Index(t, x, y, z) + 1]

\* t.Set(x, y, z, val)
Set(t, x, y, z, val) == [t EXCEPT !.Data[Index(t, x, y, z) + 1] = val]

\* no inner layer
NoConvLayer == [output |-> NoTensor, filters |-> 0, wired |-> FALSE]

\* NewConvLayer(&convParams): a layer with convParams.FilterCount filters,
\* whose output has one channel per filter; Width and Height stand for the
\* output size that the other fields of ConvParams give
NewConvLayer(convParams) ==
    [output |-> NewTensor3(convParams.Width, convParams.Height, convParams.FilterCount),
     filters |-> convParams.FilterCount,
     wired |-> FALSE]

\* convLayer.SetDownstreamGradient(res.convDownstream.Data): the inner layer
\* reads its downstream gradient from the storage of convDownstream
Wire(cl) == [cl EXCEPT !.wired = TRUE]

\* the ConvGrowParams that NewConvGrowLayer is called with
GrowParams ==
    [FilterCount : 1..MaxFilters, Width : 1..MaxInner, Height : 1..MaxInner,
     InverseStride : 1..MaxStride]

\* the struct that NewConvGrowLayer(p) returns (lines 61-78)
NewConvGrowLayer(p) ==
    LET convParams == [p EXCEPT !.FilterCount = @ * (p.InverseStride * p.InverseStride)]
        cl == NewConvLayer(convParams)
    IN  [output |-> NewTensor3(cl.output.Width * p.InverseStride,
                               cl.output.Height * p.InverseStride, p.FilterCount),
         convLayer |-> Wire(cl),
         convDownstream |-> NewTensor3(cl.output.Width, cl.output.Height,
                                       cl.output.Depth),
         inverseStride |-> p.InverseStride]

\* the struct that c.Alias() returns (lines 201-211); the alias of the inner
\* layer has the shape of the inner layer and buffers of its own
AliasLayer ==
    [output |-> NewTensor3(output.Width, output.Height, output.Depth),
     convLayer |-> Wire([convLayer EXCEPT
                            !.output = NewTensor3(@.Width, @.Height, @.Depth)]),
     convDownstream |-> NewTensor3(convDownstream.Width, convDownstream.Height,
                                   convDownstream.Depth),
     inverseStride |-> inverseStride]

\* no ConvGrowLayer has been made
InitGrow ==
    /\ output = NoTensor
    /\ downstream = NoTensor
    /\ convLayer = NoConvLayer
    /\ convDownstream = NoTensor
    /\ inverseStride = 0
    /\ growPc = "none"
    /\ iter = 0
    /\ err = FALSE
    /\ done = ""
    /\ written = <<>>
    /\ innerRead = <<>>

-----------------------------------------------------------------------------
\* Pure parts of the gradientCache.

\* autofunc.NewGradient(g.variables) / NewRGradient: a zero vector per variable
NewGradient == [i \in 1..NumVars |-> 0]

\* a buffer taken from a pool that keeps its earlier contents
ZeroKeepsContents(v) == v

\* a Zero that clears the first component only
ZeroFirstOnly(v) == [i \in DOMAIN v |-> IF i = 1 THEN 0 ELSE v[i]]

\* res.Zero()
Zero(v) == [i \in DOMAIN v |-> 0]

\* a pop that leaves the pool as it is
PoolPopKeeps(pool) == pool

\* g.gradients[:len(g.gradients)-1] and g.rGradients[:len(g.rGradients)-1]
PoolPop(pool) == SubSeq(pool, 1, Len(pool) - 1)

\* the index Alloc reads: len(g.gradients)-1, here 1-based
AllocIndex(grads) == Len(grads)

\* the index AllocR reads: len(g.gradients)-1 (the plain pool's length), 1-based
AllocRIndex(grads, rgrads) == Len(grads)

\* Alloc between Lock and Unlock: the buffer handed out and the pool left.
\* nvals is the number of plain buffers allocated so far.
AllocPop(grads, nvals) ==
    IF Len(grads) = 0
    THEN [fresh |-> TRUE, panic |-> FALSE, res |-> nvals + 1, pool |-> grads]
    ELSE [fresh |-> FALSE, panic |-> FALSE, res |-> grads[AllocIndex(grads)],
          pool |-> PoolPop(grads)]

\* AllocR between Lock and Unlock.  Indexing g.rGradients outside
\* 0..len-1 is a runtime panic.
AllocRPop(grads, rgrads, nvals) ==
    IF Len(rgrads) = 0
    THEN [fresh |-> TRUE, panic |-> FALSE, res |-> nvals + 1, pool |-> rgrads]
    ELSE IF AllocRIndex(grads, rgrads) \notin 1..Len(rgrads)
    THEN [fresh |-> FALSE, panic |-> TRUE, res |-> 0, pool |-> rgrads]
    ELSE [fresh |-> FALSE, panic |-> FALSE, res |-> rgrads[AllocRIndex(grads, rgrads)],
          pool |-> PoolPop(rgrads)]

\* contents after Alloc/AllocR returned a: a fresh zero buffer is added, a
\* reused one is zeroed
AllocVals(a, vals) ==
    IF a.panic THEN vals
    ELSE IF a.fresh THEN Append(vals, NewGradient)
    ELSE [vals EXCEPT ![a.res] = Zero(@)]

\* a Free that drops the buffer
PoolPushDrops(pool, gr) == pool

\* Free / FreeR: append(g.gradients, gr)
PoolPush(pool, gr) == Append(pool, gr)

\* s without its i-th element
RemoveAt(s, i) == SubSeq(s, 1, i - 1) \o SubSeq(s, i + 1, Len(s))

-----------------------------------------------------------------------------
\* The cache under concurrent direct users.  Each call is cut at its mutex
\* operations: Lock, the critical section up to Unlock, and what follows.

InitCache ==
    /\ gradients = <<>>
    /\ rGradients = <<>>
    /\ gradsLock = 0
    /\ rgradsLock = 0
    /\ gradVal = <<>>
    /\ rgradVal = <<>>
    /\ fault = FALSE

InitOwners ==
    /\ ownerPc = [o \in Owners |-> "idle"]
    /\ ownerRes = [o \in Owners |-> 0]
    /\ ownerHeld = [o \in Owners |-> <<>>]
    /\ ownerHeldR = [o \in Owners |-> <<>>]

\* the buffers handed out and not freed, and the calls under way that will
\* hand one out
InUse ==
    Cardinality(UNION {{<<o, i, "g">> : i \in 1..Len(ownerHeld[o])} \cup
                       {<<o, i, "r">> : i \in 1..Len(ownerHeldR[o])} \cup
                       (IF ownerPc[o] \in {"alloc_locked", "alloc_zero",
                                           "allocr_locked", "allocr_zero"}
                        THEN {<<o, 0, "c">>} ELSE {}) : o \in Owners})

\* Alloc: g.gradsLock.Lock()
OwnerAllocLock(o) ==
    /\ ~fault
    /\ ownerPc[o] = "idle"
    /\ InUse < MaxHeld
    /\ Len(gradVal) < MaxBufs \/ Len(gradients) > 0
    /\ gradsLock = 0
    /\ gradsLock' = o
    /\ ownerPc' = [ownerPc EXCEPT ![o] = "alloc_locked"]
    /\ UNCHANGED <<gradients, rGradients, rgradsLock, gradVal, rgradVal, fault,
                   ownerRes, ownerHeld, ownerHeldR>>
    /\ UNCHANGED <<batcherVars, callerVars>>
    /\ UNCHANGED <<histVars, growVars>>

\* Alloc: the length test, the pop, Unlock; a fresh buffer is returned at once
OwnerAllocBody(o) ==
    /\ ~fault
    /\ ownerPc[o] = "alloc_locked"
    /\ LET a == AllocPop(gradients, Len(gradVal)) IN
        /\ gradients' = a.pool
        /\ gradsLock' = 0
        /\ IF a.fresh
           THEN /\ gradVal' = AllocVals(a, gradVal)
                /\ ownerHeld' = [ownerHeld EXCEPT ![o] = Append(@, a.res)]
                /\ ownerPc' = [ownerPc EXCEPT ![o] = "idle"]
                /\ UNCHANGED ownerRes
           ELSE /\ ownerRes' = [ownerRes EXCEPT ![o] = a.res]
                /\ ownerPc' = [ownerPc EXCEPT ![o] = "alloc_zero"]
                /\ UNCHANGED <<gradVal, ownerHeld>>
    /\ UNCHANGED <<rGradients, rgradsLock, rgradVal, fault, ownerHeldR>>
    /\ UNCHANGED <<batcherVars, callerVars>>
    /\ UNCHANGED <<histVars, growVars>>

\* Alloc: res.Zero(); return res
OwnerAllocZero(o) ==
    /\ ~fault
    /\ ownerPc[o] = "alloc_zero"
    /\ gradVal' = [gradVal EXCEPT ![ownerRes[o]] = Zero(@)]
    /\ ownerHeld' = [ownerHeld EXCEPT ![o] = Append(@, ownerRes[o])]
    /\ ownerRes' = [ownerRes EXCEPT ![o] = 0]
    /\ ownerPc' = [ownerPc EXCEPT ![o] = "idle"]
    /\ UNCHANGED <<gradients, rGradients, gradsLock, rgradsLock, rgradVal, fault,
                   ownerHeldR>>
    /\ UNCHANGED <<batcherVars, callerVars>>
    /\ UNCHANGED <<histVars, growVars>>

\* AllocR: g.rgradsLock.Lock()
OwnerAllocRLock(o) ==
    /\ ~fault
    /\ ownerPc[o] = "idle"
    /\ InUse < MaxHeld
    /\ Len(rgradVal) < MaxBufs \/ Len(rGradients) > 0
    /\ rgradsLock = 0
    /\ rgradsLock' = o
    /\ ownerPc' = [ownerPc EXCEPT ![o] = "allocr_locked"]
    /\ UNCHANGED <<gradients, rGradients, gradsLock, gradVal, rgradVal, fault,
                   ownerRes, ownerHeld, ownerHeldR>>
    /\ UNCHANGED <<batcherVars, callerVars>>
    /\ UNCHANGED <<histVars, growVars>>

\* AllocR: the length test, the indexed read, the pop, Unlock
OwnerAllocRBody(o) ==
    /\ ~fault
    /\ ownerPc[o] = "allocr_locked"
    /\ LET a == AllocRPop(gradients, rGradients, Len(rgradVal)) IN
        IF a.panic
        THEN /\ fault' = TRUE
             /\ UNCHANGED <<rGradients, rgradsLock, rgradVal, ownerPc, ownerRes,
                            ownerHeldR>>
        ELSE /\ rGradients' = a.pool
             /\ rgradsLock' = 0
             /\ UNCHANGED fault
             /\ IF a.fresh
                THEN /\ rgradVal' = AllocVals(a, rgradVal)
                     /\ ownerHeldR' = [ownerHeldR EXCEPT ![o] = Append(@, a.res)]
                     /\ ownerPc' = [ownerPc EXCEPT ![o] = "idle"]
                     /\ UNCHANGED ownerRes
                ELSE /\ ownerRes' = [ownerRes EXCEPT ![o] = a.res]
                     /\ ownerPc' = [ownerPc EXCEPT ![o] = "allocr_zero"]
                     /\ UNCHANGED <<rgradVal, ownerHeldR>>
    /\ UNCHANGED <<gradients, gradsLock, gradVal, ownerHeld>>
    /\ UNCHANGED <<batcherVars, callerVars>>
    /\ UNCHANGED <<histVars, growVars>>

\* AllocR: res.Zero(); return res
OwnerAllocRZero(o) ==
    /\ ~fault
    /\ ownerPc[o] = "allocr_zero"
    /\ rgradVal' = [rgradVal EXCEPT ![ownerRes[o]] = Zero(@)]
    /\ ownerHeldR' = [ownerHeldR EXCEPT ![o] = Append(@, ownerRes[o])]
    /\ ownerRes' = [ownerRes EXCEPT ![o] = 0]
    /\ ownerPc' = [ownerPc EXCEPT ![o] = "idle"]
    /\ UNCHANGED <<gradients, rGradients, gradsLock, rgradsLock, gradVal, fault,
                   ownerHeld>>
    /\ UNCHANGED <<batcherVars, callerVars>>
    /\ UNCHANGED <<histVars, growVars>>

\* what an owner leaves in a buffer it has used: non-zero values
UsedContents == [i \in 1..NumVars |-> i]

\* Free(gr) of a buffer the owner holds and has written its values into:
\* g.gradsLock.Lock()
OwnerFreeLock(o) ==
    /\ ~fault
    /\ ownerPc[o] = "idle"
    /\ gradsLock = 0
    /\ \E i \in 1..Len(ownerHeld[o]) :
        /\ ownerRes' = [ownerRes EXCEPT ![o] = ownerHeld[o][i]]
        /\ ownerHeld' = [ownerHeld EXCEPT ![o] = RemoveAt(@, i)]
        /\ gradVal' = [gradVal EXCEPT ![ownerHeld[o][i]] = UsedContents]
    /\ gradsLock' = o
    /\ ownerPc' = [ownerPc EXCEPT ![o] = "free_locked"]
    /\ UNCHANGED <<gradients, rGradients, rgradsLock, rgradVal, fault,
                   ownerHeldR>>
    /\ UNCHANGED <<batcherVars, callerVars>>
    /\ UNCHANGED <<histVars, growVars>>

\* Free: the append, and the deferred Unlock
OwnerFreeBody(o) ==
    /\ ~fault
    /\ ownerPc[o] = "free_locked"
    /\ gradients' = PoolPush(gradients, ownerRes[o])
    /\ gradsLock' = 0
    /\ ownerRes' = [ownerRes EXCEPT ![o] = 0]
    /\ ownerPc' = [ownerPc EXCEPT ![o] = "idle"]
    /\ UNCHANGED <<rGradients, rgradsLock, gradVal, rgradVal, fault, ownerHeld,
                   ownerHeldR>>
    /\ UNCHANGED <<batcherVars, callerVars>>
    /\ UNCHANGED <<histVars, growVars>>

\* FreeR(gr) of an R buffer the owner holds and has written its values
\* into: g.rgradsLock.Lock()
OwnerFreeRLock(o) ==
    /\ ~fault
    /\ ownerPc[o] = "idle"
    /\ rgradsLock = 0
    /\ \E i \in 1..Len(ownerHeldR[o]) :
        /\ ownerRes' = [ownerRes EXCEPT ![o] = ownerHeldR[o][i]]
        /\ ownerHeldR' = [ownerHeldR EXCEPT ![o] = RemoveAt(@, i)]
        /\ rgradVal' = [rgradVal EXCEPT ![ownerHeldR[o][i]] = UsedContents]
    /\ rgradsLock' = o
    /\ ownerPc' = [ownerPc EXCEPT ![o] = "freer_locked"]
    /\ UNCHANGED <<gradients, rGradients, gradsLock, gradVal, fault,
                   ownerHeld>>
    /\ UNCHANGED <<batcherVars, callerVars>>
    /\ UNCHANGED <<histVars, growVars>>

\* FreeR: the append, and the deferred Unlock
OwnerFreeRBody(o) ==
    /\ ~fault
    /\ ownerPc[o] = "freer_locked"
    /\ rGradients' = PoolPush(rGradients, ownerRes[o])
    /\ rgradsLock' = 0
    /\ ownerRes' = [ownerRes EXCEPT ![o] = 0]
    /\ ownerPc' = [ownerPc EXCEPT ![o] = "idle"]
    /\ UNCHANGED <<gradients, gradsLock, gradVal, rgradVal, fault, ownerHeld,
                   ownerHeldR>>
    /\ UNCHANGED <<batcherVars, callerVars>>
    /\ UNCHANGED <<histVars, growVars>>

-----------------------------------------------------------------------------
\* The Batcher.

\* the goroutine of Start's loop body waiting in "for req := range reqChan";
\* c is the channel pair its closure captured
IdleWorker(c) ==
    [ch |-> c, pc |-> "recv", input |-> 0, rv |-> FALSE, grad |-> 0, rgrad |-> 0,
     k |-> 0]

\* the zero value of batcherResponse
NoResp == [grad |-> 0, rgrad |-> 0, k |-> 0]

\* the sample sets a caller passes: n samples with inputs 1..n
Batches ==
    {[i \in 1..n |-> i] :
        n \in 0..(IF MaxSingleRequests > MaxRequests THEN MaxSingleRequests
                  ELSE MaxRequests)}

\* The learner and the cost function: the gradient and the R-gradient that
\* one sample with input x contributes, integer vectors over the variables.
SampleGrad(x) == [i \in 1..NumVars |-> IF i = 1 THEN x ELSE 1 - i * x]
SampleRGrad(x) == [i \in 1..NumVars |-> i * x + 1]

\* elementwise a + b
VecAdd(a, b) == [i \in 1..NumVars |-> a[i] + b[i]]

\* cost.PropagateGradient(..., resp.Grad): the sample's gradient is added
\* into the buffer
Propagate(vals, id, g) == [vals EXCEPT ![id] = VecAdd(@, g)]

\* gradOut.Add(resp.Grad) / rgradOut.Add(resp.RGrad)
Accumulate(vals, out, in) == [vals EXCEPT ![out] = VecAdd(@, vals[in])]

\* NewBatcher: nothing started, an empty cache, no earlier result
InitBatcher ==
    /\ reqChan = 0
    /\ respChan = 0
    /\ lastGradResult = 0
    /\ lastGradRResult = 0
    /\ chans = <<>>
    /\ workers = EmptyBag
    /\ disps = <<>>
    /\ callerPc = "idle"
    /\ path = "single"
    /\ samples = <<>>
    /\ rv = FALSE
    /\ idx = 0
    /\ gradOut = 0
    /\ rgradOut = 0
    /\ resp = NoResp
    /\ got = <<>>
    /\ nReqs = 0
    /\ nRReqs = 0

Init ==
    /\ InitCache
    /\ InitOwners
    /\ InitBatcher
    /\ InitGrow
    /\ batchSize \in BatchSizes
    /\ maxProcs \in ProcCounts

\* Start: routineCount (lines 79-82)
RoutineCount(B, P) == IF B > P THEN P ELSE B

\* Start: the test that keeps the Batcher single-threaded (line 83)
StaysSingle(B, P) == RoutineCount(B, P) < 2

\* the samples, and the samples with a non-nil rv, that the callers of a
\* Batcher made with batch size B pass to it over all calls
SampleBudget(B, P) == IF StaysSingle(B, P) THEN MaxSingleRequests ELSE MaxRequests
RSampleBudget(B, P) == IF StaysSingle(B, P) THEN MaxSingleRequests ELSE MaxRRequests

\* Start: the number of goroutines the loop of line 89 launches
WorkersLaunched(B, P) == B

\* a response channel with no room for a response
RespCapacityNone(B, P) == 0

\* Start: the capacity of respChan (line 88)
RespCapacity(B, P) == RoutineCount(B, P)

\* a worker of the bag moves from state st to state st2
MoveWorker(st, st2) == workers' = (workers (-) SetToBag({st})) (+) SetToBag({st2})

Start ==
    /\ ~fault
    /\ callerPc = "idle"
    /\ Len(chans) < MaxStarts
    /\ IF StaysSingle(batchSize, maxProcs)
       THEN UNCHANGED <<reqChan, respChan, chans, workers>>
       ELSE LET c == Len(chans) + 1 IN
            /\ chans' = Append(chans, [closed |-> FALSE, stopped |-> FALSE,
                                       cap |-> RespCapacity(batchSize, maxProcs),
                                       queue |-> <<>>])
            /\ workers' = workers (+)
                   [st \in {IdleWorker(c)} |-> WorkersLaunched(batchSize, maxProcs)]
            /\ reqChan' = c
            /\ respChan' = c
    /\ UNCHANGED <<cacheVars, ownerVars, callerVars, batchSize, maxProcs,
                   lastGradResult, lastGradRResult, disps>>
    /\ UNCHANGED <<histVars, growVars>>

\* a Stop without the test of line 105
StopClosesAlways(rc) == TRUE

\* Stop: the test of line 105
StopCloses(rc) == rc # 0

\* a Stop that leaves the request channel open
CloseChanLeavesOpen(ch) == ch

\* Stop: close(b.reqChan) (line 106)
CloseChan(ch) == [ch EXCEPT !.closed = TRUE]

\* Stop.  close of a nil or of a closed channel is a runtime panic.
Stop ==
    /\ ~fault
    /\ callerPc = "idle"
    /\ IF StopCloses(reqChan)
       THEN IF reqChan = 0 \/ chans[reqChan].closed
            THEN /\ fault' = TRUE
                 /\ UNCHANGED <<reqChan, respChan, chans>>
            ELSE /\ chans' = [chans EXCEPT ![reqChan] = [CloseChan(@) EXCEPT !.stopped = TRUE]]
                 /\ reqChan' = 0
                 /\ respChan' = 0
                 /\ UNCHANGED fault
       ELSE UNCHANGED <<reqChan, respChan, chans, fault>>
    /\ UNCHANGED <<gradients, rGradients, gradsLock, rgradsLock, gradVal, rgradVal,
                   ownerVars, callerVars, batchSize, maxProcs, lastGradResult,
                   lastGradRResult, workers, disps>>
    /\ UNCHANGED <<histVars, growVars>>

\* batch, lines 139-149 and 166-170: the earlier results go back to the
\* cache, the branch is chosen, and on the parallel branch the dispatcher
\* goroutine is launched.  r says whether rv is non-nil.
BatchBegin(s, r) ==
    /\ ~fault
    /\ callerPc = "idle"
    /\ nReqs + Len(s) <= SampleBudget(batchSize, maxProcs)
    /\ nReqs' = nReqs + Len(s)
    /\ r => nRReqs + Len(s) <= RSampleBudget(batchSize, maxProcs)
    /\ nRReqs' = IF r THEN nRReqs + Len(s) ELSE nRReqs
    /\ gradients' = IF lastGradResult # 0 THEN PoolPush(gradients, lastGradResult)
                    ELSE gradients
    /\ rGradients' = IF lastGradRResult # 0 THEN PoolPush(rGradients, lastGradRResult)
                     ELSE rGradients
    /\ samples' = s
    /\ rv' = r
    /\ idx' = 0
    /\ gradOut' = 0
    /\ rgradOut' = 0
    /\ resp' = NoResp
    /\ got' = <<>>
    /\ path' = IF reqChan = 0 THEN "single" ELSE "parallel"
    /\ disps' = IF reqChan # 0 /\ Len(s) > 0
                THEN Append(disps, [samples |-> s, rv |-> r, next |-> 1])
                ELSE disps
    /\ callerPc' = "loop"
    /\ UNCHANGED <<gradsLock, rgradsLock, gradVal, rgradVal, fault, ownerVars,
                   batchSize, maxProcs, reqChan, respChan, lastGradResult,
                   lastGradRResult, chans, workers>>
    /\ UNCHANGED growVars

\* BatchGradient(s): batch(nil, s)
BatchGradient == \E s \in Batches : BatchBegin(s, FALSE)

\* BatchRGradient(v, s) with a non-nil v
BatchRGradient == \E s \in Batches : BatchBegin(s, TRUE)

\* a drain loop that ends one response early
LoopDoneEarly(i, n) == i >= n - 1

\* the loops of lines 150 and 172, "for i := range s.Inputs", are over
LoopDone(i, n) == i = n

\* batch, lines 188-189: the loop is over, the results are kept and returned
BatchReturn ==
    /\ ~fault
    /\ callerPc = "loop"
    /\ LoopDone(idx, Len(samples))
    /\ lastGradResult' = gradOut
    /\ lastGradRResult' = rgradOut
    /\ callerPc' = "idle"
    \* the locals of the call are gone
    /\ path' = "single"
    /\ samples' = <<>>
    /\ rv' = FALSE
    /\ idx' = 0
    /\ gradOut' = 0
    /\ rgradOut' = 0
    /\ resp' = NoResp
    /\ got' = <<>>
    /\ UNCHANGED <<cacheVars, ownerVars, batchSize, maxProcs, reqChan, respChan,
                   chans, workers, disps>>
    /\ UNCHANGED <<histVars, growVars>>

\* single-threaded branch, lines 150-152: the next request is made and
\* fulfillRequest is entered
SingleNext ==
    /\ ~fault
    /\ callerPc = "loop"
    /\ path = "single"
    /\ ~LoopDone(idx, Len(samples))
    /\ resp' = [NoResp EXCEPT !.k = idx + 1]
    /\ callerPc' = "alloc"
    /\ UNCHANGED <<cacheVars, ownerVars, batcherVars, path, samples, rv, idx,
                   gradOut, rgradOut, got>>
    /\ UNCHANGED <<histVars, growVars>>

\* fulfillRequest in the caller, line 194: b.cache.Alloc(); with no rv the
\* gradient is then propagated into the buffer (lines 203-205)
CallerAlloc ==
    /\ ~fault
    /\ callerPc = "alloc"
    /\ LET a == AllocPop(gradients, Len(gradVal)) IN
        /\ gradients' = a.pool
        /\ gradVal' = IF rv THEN AllocVals(a, gradVal)
                      ELSE Propagate(AllocVals(a, gradVal), a.res,
                                     SampleGrad(samples[idx + 1]))
        /\ resp' = [resp EXCEPT !.grad = a.res]
    /\ callerPc' = IF rv THEN "allocr" ELSE "acc"
    /\ UNCHANGED <<rGradients, gradsLock, rgradsLock, rgradVal, fault, ownerVars,
                   batcherVars, path, samples, rv, idx, gradOut, rgradOut,
                   got>>
    /\ UNCHANGED <<histVars, growVars>>

\* fulfillRequest in the caller, lines 196-201: b.cache.AllocR(), then both
\* gradients are propagated into the two buffers
CallerAllocR ==
    /\ ~fault
    /\ callerPc = "allocr"
    /\ LET a == AllocRPop(gradients, rGradients, Len(rgradVal)) IN
        /\ fault' = a.panic
        /\ rGradients' = a.pool
        /\ IF a.panic
           THEN UNCHANGED <<gradVal, rgradVal, resp, callerPc>>
           ELSE /\ rgradVal' = Propagate(AllocVals(a, rgradVal), a.res,
                                         SampleRGrad(samples[idx + 1]))
                /\ gradVal' = Propagate(gradVal, resp.grad, SampleGrad(samples[idx + 1]))
                /\ resp' = [resp EXCEPT !.rgrad = a.res]
                /\ callerPc' = "acc"
    /\ UNCHANGED <<gradients, gradsLock, rgradsLock, ownerVars,
                   batcherVars, path, samples, rv, idx, gradOut, rgradOut,
                   got>>
    /\ UNCHANGED <<histVars, growVars>>

\* parallel branch, line 173: resp := <-b.respChan
DrainRecv ==
    /\ ~fault
    /\ callerPc = "loop"
    /\ path = "parallel"
    /\ ~LoopDone(idx, Len(samples))
    /\ respChan # 0
    /\ Len(chans[respChan].queue) > 0
    /\ resp' = Head(chans[respChan].queue)
    /\ chans' = [chans EXCEPT ![respChan].queue = Tail(@)]
    /\ callerPc' = "acc"
    /\ UNCHANGED <<cacheVars, ownerVars, batchSize, maxProcs, reqChan, respChan,
                   lastGradResult, lastGradRResult, workers, disps, path, samples,
                   rv, idx, gradOut, rgradOut, got>>
    /\ UNCHANGED <<histVars, growVars>>

\* both branches, lines 153-158 and 174-179: the first response becomes the
\* result, a later one is added to it and its gradient freed
Acc ==
    /\ ~fault
    /\ callerPc = "acc"
    /\ got' = Append(got, resp.k)
    /\ IF idx = 0
       THEN /\ gradOut' = resp.grad
            /\ rgradOut' = resp.rgrad
            /\ idx' = idx + 1
            /\ callerPc' = "loop"
            /\ UNCHANGED <<gradients, gradVal>>
       ELSE /\ gradVal' = Accumulate(gradVal, gradOut, resp.grad)
            /\ gradients' = PoolPush(gradients, resp.grad)
            /\ IF rgradOut # 0
               THEN callerPc' = "accr" /\ UNCHANGED idx
               ELSE callerPc' = "loop" /\ idx' = idx + 1
            /\ UNCHANGED <<gradOut, rgradOut>>
    /\ UNCHANGED <<rGradients, gradsLock, rgradsLock, rgradVal, fault, ownerVars,
                   batcherVars, path, samples, rv, resp>>
    /\ UNCHANGED <<histVars, growVars>>

\* both branches, lines 159-162 and 180-183: the R-gradient is added and freed
AccR ==
    /\ ~fault
    /\ callerPc = "accr"
    /\ rgradVal' = Accumulate(rgradVal, rgradOut, resp.rgrad)
    /\ rGradients' = PoolPush(rGradients, resp.rgrad)
    /\ idx' = idx + 1
    /\ callerPc' = "loop"
    /\ UNCHANGED <<gradients, gradsLock, rgradsLock, gradVal, fault, ownerVars,
                   batcherVars, path, samples, rv, gradOut, rgradOut, resp,
                   got>>
    /\ UNCHANGED <<histVars, growVars>>

\* the dispatcher's send of line 168 meeting a worker's receive of line 91:
\* the request channel is unbuffered, the two happen together.  The
\* dispatcher reads b.reqChan at each send; a send on a closed channel panics.
DispatchRecv ==
    /\ ~fault
    /\ reqChan # 0
    /\ \E d \in 1..Len(disps) :
        LET dp == disps[d] IN
        IF chans[reqChan].closed
        THEN /\ fault' = TRUE
             /\ UNCHANGED <<workers, disps>>
        ELSE /\ BagIn(IdleWorker(reqChan), workers)
             /\ MoveWorker(IdleWorker(reqChan),
                           [ch |-> reqChan, pc |-> "alloc", input |-> dp.samples[dp.next],
                            rv |-> dp.rv, grad |-> 0, rgrad |-> 0, k |-> dp.next])
             /\ disps' = IF dp.next = Len(dp.samples) THEN RemoveAt(disps, d)
                         ELSE [disps EXCEPT ![d].next = @ + 1]
             /\ UNCHANGED fault
    /\ UNCHANGED <<gradients, rGradients, gradsLock, rgradsLock, gradVal, rgradVal,
                   ownerVars, callerVars, batchSize, maxProcs, reqChan, respChan,
                   lastGradResult, lastGradRResult, chans>>
    /\ UNCHANGED <<histVars, growVars>>

\* fulfillRequest in a worker, line 194: b.cache.Alloc(); with no rv the
\* gradient is then propagated into the buffer (lines 203-205)
WorkerAlloc ==
    /\ ~fault
    /\ \E st \in BagToSet(workers) :
        /\ st.pc = "alloc"
        /\ LET a == AllocPop(gradients, Len(gradVal)) IN
            /\ gradients' = a.pool
            /\ gradVal' = IF st.rv THEN AllocVals(a, gradVal)
                          ELSE Propagate(AllocVals(a, gradVal), a.res, SampleGrad(st.input))
            /\ MoveWorker(st, [st EXCEPT !.grad = a.res,
                                          !.pc = IF st.rv THEN "allocr" ELSE "send"])
    /\ UNCHANGED <<rGradients, gradsLock, rgradsLock, rgradVal, fault, ownerVars,
                   callerVars, batchSize, maxProcs, reqChan, respChan, lastGradResult,
                   lastGradRResult, chans, disps>>
    /\ UNCHANGED <<histVars, growVars>>

\* fulfillRequest in a worker, lines 196-201: b.cache.AllocR(), then both
\* gradients are propagated into the two buffers
WorkerAllocR ==
    /\ ~fault
    /\ \E st \in BagToSet(workers) :
        /\ st.pc = "allocr"
        /\ LET a == AllocRPop(gradients, rGradients, Len(rgradVal)) IN
            /\ fault' = a.panic
            /\ rGradients' = a.pool
            /\ IF a.panic
               THEN UNCHANGED <<workers, gradVal, rgradVal>>
               ELSE /\ rgradVal' = Propagate(AllocVals(a, rgradVal), a.res,
                                             SampleRGrad(st.input))
                    /\ gradVal' = Propagate(gradVal, st.grad, SampleGrad(st.input))
                    /\ MoveWorker(st, [st EXCEPT !.rgrad = a.res, !.pc = "send"])
    /\ UNCHANGED <<gradients, gradsLock, rgradsLock, ownerVars, callerVars,
                   batchSize, maxProcs, reqChan, respChan, lastGradResult,
                   lastGradRResult, chans, disps>>
    /\ UNCHANGED <<histVars, growVars>>

\* a worker's send of line 92 on the response channel its closure captured:
\* it waits while the buffer is full
WorkerSend ==
    /\ ~fault
    /\ \E st \in BagToSet(workers) :
        /\ st.pc = "send"
        /\ Len(chans[st.ch].queue) < chans[st.ch].cap
        /\ chans' = [chans EXCEPT ![st.ch].queue =
                         Append(@, [grad |-> st.grad, rgrad |-> st.rgrad, k |-> st.k])]
        /\ MoveWorker(st, IdleWorker(st.ch))
    /\ UNCHANGED <<cacheVars, ownerVars, callerVars, batchSize, maxProcs, reqChan,
                   respChan, lastGradResult, lastGradRResult, disps>>
    /\ UNCHANGED <<histVars, growVars>>

\* the range loop of line 91 ends when its request channel is closed: the
\* workers waiting on a closed channel leave the loop and end.  They wait at
\* the same place and nothing else reads their state, so they go in one step.
WorkerExit ==
    /\ ~fault
    /\ \E st \in BagToSet(workers) :
        /\ st.pc = "recv"
        /\ chans[st.ch].closed
        /\ workers' = (workers (-) [x \in {st} |-> CopiesIn(st, workers)])
                          (+) [x \in {[st EXCEPT !.pc = "exit"]} |-> CopiesIn(st, workers)]
    /\ UNCHANGED <<cacheVars, ownerVars, callerVars, batchSize, maxProcs, reqChan,
                   respChan, lastGradResult, lastGradRResult, chans, disps>>
    /\ UNCHANGED <<histVars, growVars>>

\* the steps of the goroutine that called BatchGradient or BatchRGradient
CallerStep ==
    \/ BatchReturn
    \/ SingleNext
    \/ CallerAlloc
    \/ CallerAllocR
    \/ DrainRecv
    \/ Acc
    \/ AccR

\* the steps of a worker goroutine that holds a request
WorkerStep ==
    \/ WorkerAlloc
    \/ WorkerAllocR
    \/ WorkerSend

\* the steps of the goroutines and of the caller inside batch
Internal ==
    \/ CallerStep
    \/ DispatchRecv
    \/ WorkerStep
    \/ WorkerExit

Next ==
    \/ Start
    \/ Stop
    \/ BatchGradient
    \/ BatchRGradient
    \/ Internal

Spec == Init /\ [][Next]_vars

\* Goroutines that can run do run: the Go scheduler starves none of them.
Fairness ==
    /\ WF_vars(CallerStep)
    /\ WF_vars(DispatchRecv)
    /\ WF_vars(WorkerStep)
    /\ WF_vars(WorkerExit)

FairSpec == Spec /\ Fairness

-----------------------------------------------------------------------------
\* The cache used directly by concurrent owners, with no Batcher activity.

\* the reads and writes of the two pools that the next step of owner o
\* makes: Alloc tests the length of gradients (line 224) and, if it is not
\* zero, reads and cuts gradients (lines 229-230); AllocR tests the length of
\* rGradients (line 238) and, if it is not zero, reads the length of
\* gradients and reads and cuts rGradients (lines 243-244); Free and FreeR
\* append (lines 253, 259)
PoolAccesses(o) ==
    CASE ownerPc[o] = "alloc_locked" ->
             {<<"gradients", "read">>} \cup
             (IF Len(gradients) = 0 THEN {} ELSE {<<"gradients", "write">>})
      [] ownerPc[o] = "allocr_locked" ->
             {<<"rGradients", "read">>} \cup
             (IF Len(rGradients) = 0 THEN {}
              ELSE {<<"gradients", "read">>, <<"rGradients", "write">>})
      [] ownerPc[o] = "free_locked" ->
             {<<"gradients", "read">>, <<"gradients", "write">>}
      [] ownerPc[o] = "freer_locked" ->
             {<<"rGradients", "read">>, <<"rGradients", "write">>}
      [] OTHER -> {}

\* the pools whose mutex owner o holds
PoolsLocked(o) ==
    (IF gradsLock = o THEN {"gradients"} ELSE {}) \cup
    (IF rgradsLock = o THEN {"rGradients"} ELSE {})

InitCacheUsers ==
    /\ InitCache
    /\ InitOwners
    /\ InitBatcher
    /\ InitGrow
    /\ batchSize = 1
    /\ maxProcs = 1

NextCache ==
    \E o \in Owners :
        \/ OwnerAllocLock(o)
        \/ OwnerAllocBody(o)
        \/ OwnerAllocZero(o)
        \/ OwnerAllocRLock(o)
        \/ OwnerAllocRBody(o)
        \/ OwnerAllocRZero(o)
        \/ OwnerFreeLock(o)
        \/ OwnerFreeBody(o)
        \/ OwnerFreeRLock(o)
        \/ OwnerFreeRBody(o)

SpecCache == InitCacheUsers /\ [][NextCache]_vars

-----------------------------------------------------------------------------
\* The ConvGrowLayer: one layer c, made by NewConvGrowLayer or by
\* DeserializeConvGrowLayer, replaced by its Alias, and run forward and
\* backward.  The loops of PropagateForward and PropagateBackward go one
\* iteration of their innermost body per step.

\* everything but fault and the layer
restVars == <<gradients, rGradients, gradsLock, rgradsLock, gradVal, rgradVal,
              ownerVars, batcherVars, callerVars, histVars>>

\* c becomes the struct l
SetLayer(l) ==
    /\ output' = l.output
    /\ convLayer' = l.convLayer
    /\ convDownstream' = l.convDownstream
    /\ inverseStride' = l.inverseStride
    /\ downstream' = NoTensor

\* c := NewConvGrowLayer(p)
NewLayer ==
    /\ ~fault
    /\ growPc = "none"
    /\ \E p \in GrowParams : SetLayer(NewConvGrowLayer(p))
    /\ growPc' = "ready"
    /\ done' = "new"
    /\ UNCHANGED <<iter, err, written, innerRead, fault, restVars>>

\* c = c.Alias()
Alias ==
    /\ ~fault
    /\ growPc = "ready"
    /\ done # "alias"
    /\ SetLayer(AliasLayer)
    /\ done' = "alias"
    /\ written' = <<>>
    /\ innerRead' = <<>>
    /\ UNCHANGED <<growPc, iter, err, fault, restVars>>

\* the loops "for y ... for x ... for z" run over the elements of c.output
\* in the order of its Data: the coordinates of iteration i, counted from 0
LoopZ(i) == i % output.Depth
LoopX(i) == (i \div output.Depth) % output.Width
LoopY(i) == i \div (output.Depth * output.Width)

\* internalX and internalY (lines 130, 132, 145, 147)
InternalCoord(v) == v \div inverseStride

\* internalOffset (lines 133-134, 148-149)
InternalOffset(x, y) ==
    ((x % inverseStride) + inverseStride * (y % inverseStride)) * output.Depth

\* the place in the Data of the inner tensor t that the loop body uses for
\* the output coordinate (x, y, z)
InternalIndex(t, x, y, z) ==
    Index(t, InternalCoord(x), InternalCoord(y), InternalOffset(x, y) + z)

\* the loop over c.output is over after n iterations
GrowLoopDone(i) == i = Len(output.Data)

\* what the inner layer's forward pass leaves in its output, cell by cell
InnerValues(n) == [i \in 1..n |-> 10 * i]

\* PropagateForward, line 127: c.convLayer.PropagateForward()
ForwardBegin ==
    /\ ~fault
    /\ growPc = "ready"
    /\ done # "forward"
    /\ convLayer' = [convLayer EXCEPT !.output.Data = InnerValues(Len(@))]
    /\ growPc' = "fwd"
    /\ iter' = 0
    /\ done' = ""
    /\ UNCHANGED <<output, downstream, convDownstream, inverseStride, err, written,
                   innerRead, fault, restVars>>

\* PropagateForward, lines 136-137: one Get and Set; a Get outside the
\* Data of the inner output panics
ForwardStep ==
    /\ ~fault
    /\ growPc = "fwd"
    /\ ~GrowLoopDone(iter)
    /\ LET x == LoopX(iter)
           y == LoopY(iter)
           z == LoopZ(iter)
       IN  IF InRange(convLayer.output, InternalIndex(convLayer.output, x, y, z))
           THEN /\ output' = Set(output, x, y, z,
                                 convLayer.output.Data[
                                     InternalIndex(convLayer.output, x, y, z) + 1])
                /\ iter' = iter + 1
                /\ UNCHANGED fault
           ELSE /\ fault' = TRUE
                /\ UNCHANGED <<output, iter>>
    /\ UNCHANGED <<downstream, convLayer, convDownstream, inverseStride, growPc, err,
                   done, written, innerRead, restVars>>

\* PropagateForward returns
ForwardEnd ==
    /\ ~fault
    /\ growPc = "fwd"
    /\ GrowLoopDone(iter)
    /\ growPc' = "ready"
    /\ done' = "forward"
    /\ UNCHANGED <<output, downstream, convLayer, convDownstream, inverseStride, iter,
                   err, written, innerRead, fault, restVars>>

\* the vectors a caller passes to SetDownstreamGradient for an output of n
\* elements: two of the right length and one too long
DownstreamInputs(n) ==
    {[i \in 1..n |-> i], [i \in 1..n |-> 100 - i], [i \in 1..(n + 1) |-> i]}

\* c.SetDownstreamGradient(v)
SetDownstreamGradient ==
    /\ ~fault
    /\ growPc = "ready"
    /\ \E v \in DownstreamInputs(Len(output.Data)) :
          /\ downstream' = IF Len(v) # Len(output.Data) THEN downstream
                           ELSE [nil |-> FALSE, Width |-> output.Width,
                                 Height |-> output.Height, Depth |-> output.Depth,
                                 Data |-> v]
          /\ done' = IF Len(v) # Len(output.Data) THEN done ELSE "setdownstream"
    /\ UNCHANGED <<output, convLayer, convDownstream, inverseStride, growPc, iter, err,
                   written, innerRead, fault, restVars>>

\* PropagateBackward is entered
BackwardBegin ==
    /\ ~fault
    /\ growPc = "ready"
    /\ done # "backward"
    /\ growPc' = "bwd"
    /\ iter' = 0
    /\ done' = ""
    /\ written' = [i \in 1..Len(convDownstream.Data) |-> 0]
    /\ innerRead' = <<>>
    /\ UNCHANGED <<output, downstream, convLayer, convDownstream, inverseStride, err,
                   fault, restVars>>

\* PropagateBackward, lines 151-152: one Get and Set; c.downstream is nil
\* until SetDownstreamGradient has set it, and a Set outside the Data of
\* convDownstream panics
BackwardStep ==
    /\ ~fault
    /\ growPc = "bwd"
    /\ ~GrowLoopDone(iter)
    /\ LET x == LoopX(iter)
           y == LoopY(iter)
           z == LoopZ(iter)
           k == InternalIndex(convDownstream, x, y, z)
       IN  IF ~downstream.nil /\ InRange(convDownstream, k)
           THEN /\ convDownstream' = Set(convDownstream, InternalCoord(x),
                                         InternalCoord(y), InternalOffset(x, y) + z,
                                         Get(downstream, x, y, z))
                /\ written' = [written EXCEPT ![k + 1] = @ + 1]
                /\ iter' = iter + 1
                /\ UNCHANGED fault
           ELSE /\ fault' = TRUE
                /\ UNCHANGED <<convDownstream, written, iter>>
    /\ UNCHANGED <<output, downstream, convLayer, inverseStride, growPc, err, done,
                   innerRead, restVars>>

\* PropagateBackward, line 156: c.convLayer.PropagateBackward(upstream); the
\* inner layer reads the gradient that it was wired to
BackwardEnd ==
    /\ ~fault
    /\ growPc = "bwd"
    /\ GrowLoopDone(iter)
    /\ innerRead' = IF convLayer.wired THEN convDownstream.Data ELSE <<>>
    /\ growPc' = "ready"
    /\ done' = "backward"
    /\ UNCHANGED <<output, downstream, convLayer, convDownstream, inverseStride, iter,
                   err, written, fault, restVars>>

\* The serialized data handed to DeserializeConvGrowLayer: the bytes of the
\* stride field, all four of them or a prefix, followed by the inner layer's
\* payload, which DeserializeConvLayer either rejects or turns into a layer
\* of some number of filters and some output size.
StrideFields ==
    {SubSeq(<<b, 0, 0, 0>>, 1, n) : b \in 0..MaxStride, n \in 0..4}

MalformedPayload == [ok |-> FALSE, FilterCount |-> 0, Width |-> 0, Height |-> 0]

InnerPayloads ==
    {MalformedPayload} \cup
    [ok : {TRUE}, FilterCount : 1..(MaxFilters * MaxStride * MaxStride),
     Width : 1..MaxInner, Height : 1..MaxInner]

SerializedInputs == [stride : StrideFields, inner : InnerPayloads]

\* binary.Read of a uint32 fails on fewer than four bytes
ReadFails(bytes) == Len(bytes) < 4

\* convGrowByteOrder is little endian
LittleEndian(bytes) ==
    bytes[1] + 256 * bytes[2] + 65536 * bytes[3] + 16777216 * bytes[4]

\* line 94 divides by int(inverseStride*inverseStride)
DivisionPanics(s) == s * s = 0

\* the struct of lines 94-107 for the stride s and the inner layer cl
DeserializedLayer(s, cl) ==
    [output |-> NewTensor3(cl.output.Width * s, cl.output.Height * s,
                           cl.filters \div (s * s)),
     convLayer |-> Wire(cl),
     convDownstream |-> NewTensor3(cl.output.Width, cl.output.Height,
                                   cl.output.Depth),
     inverseStride |-> s]

\* c, err := DeserializeConvGrowLayer(data)
DeserializeConvGrowLayer(data) ==
    /\ ~fault
    /\ growPc = "none"
    /\ IF ReadFails(data.stride) \/ ~data.inner.ok
       THEN /\ err' = TRUE
            /\ UNCHANGED <<output, downstream, convLayer, convDownstream,
                           inverseStride, growPc, fault>>
       ELSE IF DivisionPanics(LittleEndian(data.stride))
       THEN /\ fault' = TRUE
            /\ UNCHANGED <<output, downstream, convLayer, convDownstream,
                           inverseStride, growPc, err>>
       ELSE /\ SetLayer(DeserializedLayer(LittleEndian(data.stride),
                                          NewConvLayer(data.inner)))
            /\ growPc' = "ready"
            /\ err' = FALSE
            /\ UNCHANGED fault
    /\ done' = "deserialize"
    /\ UNCHANGED <<iter, written, innerRead, restVars>>

\* the one call of DeserializeConvGrowLayer that makes c
Deserialize ==
    /\ growPc = "none"
    /\ \E data \in SerializedInputs : DeserializeConvGrowLayer(data)

InitGrowLayer ==
    /\ InitCache
    /\ InitOwners
    /\ InitBatcher
    /\ InitGrow
    /\ batchSize = 1
    /\ maxProcs = 1

NextGrow ==
    \/ NewLayer
    \/ Deserialize
    \/ Alias
    \/ ForwardBegin
    \/ ForwardStep
    \/ ForwardEnd
    \/ SetDownstreamGradient
    \/ BackwardBegin
    \/ BackwardStep
    \/ BackwardEnd

SpecGrow == InitGrowLayer /\ [][NextGrow]_vars

-----------------------------------------------------------------------------
\* Properties of the cache under concurrent owners (SpecCache).

\* the elements of a sequence
Range(s) == {s[i] : i \in DOMAIN s}

\* the holdings of the owners, as (owner, position) pairs
Holdings(held) == {<<o, i>> : o \in Owners, i \in 1..MaxHeld} \cap
                  {h \in Owners \X (1..MaxHeld) : h[2] <= Len(held[h[1]])}

\* no buffer of held is with two owners, none is both held and in pool
Unshared(held, pool) ==
    /\ \A h1, h2 \in Holdings(held) :
           h1[1] # h2[1] => held[h1[1]][h1[2]] # held[h2[1]][h2[2]]
    /\ \A h \in Holdings(held) : held[h[1]][h[2]] \notin Range(pool)

\* C1: under owners that free only what they hold, and once, no buffer is
\* ever held by two owners at the same time and no buffer is at once handed
\* out and still in a free pool, in the plain pool and in the R-gradient pool.
C1_NoBufferShared ==
    /\ Unshared(ownerHeld, gradients)
    /\ Unshared(ownerHeldR, rGradients)

\* the part of C1 about the plain pool alone
C1_PlainUnshared == Unshared(ownerHeld, gradients)

\* an owner leaves the critical section of Alloc / of AllocR in this step
AllocStep(o) == ownerPc[o] = "alloc_locked" /\ ownerPc'[o] # "alloc_locked"
AllocRStep(o) ==
    ownerPc[o] = "allocr_locked" /\ (ownerPc'[o] # "allocr_locked" \/ fault')

\* what C3 asks of one call: from an empty pool a fresh buffer and the pool
\* still empty; else one buffer leaves the pool and that buffer is the result
PopsOne(pool, poolAfter, nvals, res, panicked) ==
    /\ ~panicked
    /\ IF pool = <<>>
       THEN poolAfter = <<>> /\ res = nvals + 1
       ELSE \E i \in 1..Len(pool) : res = pool[i] /\ poolAfter = RemoveAt(pool, i)

\* the buffer a call that left its critical section in this step returns
Returned(o, heldAfter) ==
    IF ownerRes'[o] # 0 THEN ownerRes'[o] ELSE heldAfter[o][Len(heldAfter[o])]

\* C3: AllocR from a non-empty R-gradient pool removes one buffer from that
\* pool and returns that same buffer; from an empty pool it returns a fresh
\* buffer and leaves the pool empty.  Alloc does the same on the plain pool.
C3_AllocTakesFromItsPool ==
    [][\A o \in Owners :
          /\ AllocStep(o) =>
                 PopsOne(gradients, gradients', Len(gradVal),
                         Returned(o, ownerHeld'), fault')
          /\ AllocRStep(o) =>
                 PopsOne(rGradients, rGradients', Len(rgradVal),
                         IF fault' THEN 0 ELSE Returned(o, ownerHeldR'), fault')]_vars

\* the part of C3 about Alloc alone
C3_AllocPlain ==
    [][\A o \in Owners :
          AllocStep(o) =>
              PopsOne(gradients, gradients', Len(gradVal),
                      Returned(o, ownerHeld'), fault')]_vars

\* the contents the plain pool can have
PlainPools == UNION {[1..n -> 1..MaxBufs] : n \in 0..MaxBufs}

\* C4: Alloc and Free leave the R-gradient pool unchanged, AllocR and FreeR
\* leave the plain pool unchanged, and what AllocR returns and leaves in the
\* R-gradient pool is the same for every content of the plain pool.
C4_PoolsIndependent ==
    [][\A o \in Owners :
          /\ ownerPc[o] \in {"alloc_locked", "alloc_zero", "free_locked"}
                 /\ ownerPc'[o] # ownerPc[o] => rGradients' = rGradients
          /\ ownerPc[o] \in {"allocr_locked", "allocr_zero", "freer_locked"}
                 /\ ownerPc'[o] # ownerPc[o] => gradients' = gradients
          /\ ownerPc[o] = "allocr_locked" =>
                 \A g \in PlainPools :
                     AllocRPop(g, rGradients, Len(rgradVal)) =
                         AllocRPop(gradients, rGradients, Len(rgradVal))]_vars

\* the part of C4 that is the frame of the four calls
C4_Frame ==
    [][\A o \in Owners :
          /\ ownerPc[o] \in {"alloc_locked", "alloc_zero", "free_locked"}
                 /\ ownerPc'[o] # ownerPc[o] => rGradients' = rGradients
          /\ ownerPc[o] \in {"allocr_locked", "allocr_zero", "freer_locked"}
                 /\ ownerPc'[o] # ownerPc[o] => gradients' = gradients]_vars

-----------------------------------------------------------------------------
\* Properties of the Batcher (Spec, FairSpec).

\* C2: a batch computation always runs to completion: after any history of
\* earlier calls, in single-threaded and in parallel mode, BatchRGradient
\* with a non-nil direction vector meets no runtime fault.
C2_BatchRGradientCompletes == (callerPc # "idle" /\ rv) => ~fault

\* the smaller of two numbers
Min(a, b) == IF a < b THEN a ELSE b

\* the workers whose closure holds channel pair c, and how many they are
WorkersOf(c) == {st \in BagToSet(workers) : st.ch = c}
NumWorkersOf(c) ==
    BagCardinality([st \in WorkersOf(c) |-> CopiesIn(st, workers)])

\* the workers that hold a request they have not answered, and their number
Busy == {st \in BagToSet(workers) : st.pc \notin {"recv", "exit"}}
NumBusy == BagCardinality([st \in Busy |-> CopiesIn(st, workers)])

\* the call has reached the return of batch
AtReturn == callerPc = "loop" /\ idx = Len(samples)

\* requests the dispatcher of the running call has handed to a worker
Sent == IF disps = <<>> THEN Len(samples) ELSE disps[1].next - 1

\* the requests whose response the caller has taken from the channel
Taken == IF callerPc = "acc" THEN Append(got, resp.k) ELSE got

\* C5: on the parallel path a call over n samples dispatches each of its n
\* requests once, every dispatched request is at exactly one place (with one
\* worker, in the response channel, or consumed), the caller consumes
\* exactly n responses, one per request; and at the return, and between
\* calls, no dispatcher has a request left, no worker holds a request and
\* the response channel is empty, so nothing is left for a later call.
C5_ExactlyOneResponsePerRequest ==
    /\ (callerPc # "idle" /\ path = "parallel") =>
          /\ Len(disps) <= 1
          /\ disps # <<>> => disps[1].samples = samples /\ disps[1].next <= Len(samples)
          /\ Sent <= Len(samples)
          /\ Len(Taken) = idx + (IF callerPc \in {"acc", "accr"} THEN 1 ELSE 0)
          /\ NumBusy + Len(chans[respChan].queue) + Len(Taken) = Sent
          /\ {st.k : st \in Busy} \cup {chans[respChan].queue[i].k :
                                           i \in 1..Len(chans[respChan].queue)}
                                  \cup Range(Taken) = 1..Sent
          /\ AtReturn => /\ disps = <<>>
                         /\ Busy = {}
                         /\ chans[respChan].queue = <<>>
                         /\ Len(got) = Len(samples)
                         /\ Range(got) = 1..Len(samples)
    /\ (callerPc = "idle" \/ path = "single") =>
          /\ disps = <<>>
          /\ Busy = {}
          /\ \A c \in 1..Len(chans) : chans[c].queue = <<>>

\* a parallel call over three samples is at its return, the responses having
\* arrived in another order than the requests were sent
C5_Witness ==
    /\ AtReturn
    /\ path = "parallel"
    /\ Len(samples) = 3
    /\ got # <<1, 2, 3>>

RECURSIVE SumGrad(_)
SumGrad(s) == IF s = <<>> THEN NewGradient
              ELSE VecAdd(SampleGrad(Head(s)), SumGrad(Tail(s)))

\* C7: whatever the order in which the responses arrive, the gradient that
\* BatchGradient returns is, on the parallel path and on the single-threaded
\* path alike, the elementwise sum of the gradients of the samples (nil for
\* no sample).
C7_GradientIsSum ==
    (AtReturn /\ ~rv) =>
        IF samples = <<>> THEN gradOut = 0
        ELSE gradOut # 0 /\ gradVal[gradOut] = SumGrad(samples)

\* a parallel BatchGradient call returns the sum of three samples whose
\* responses arrived out of order, in a buffer that was used before
C7_Witness ==
    /\ AtReturn
    /\ ~rv
    /\ path = "parallel"
    /\ Len(samples) = 3
    /\ got[1] # 1
    /\ gradOut < Len(gradVal)

\* C8: Start launches at most min(B, P) workers, none and no channel when
\* min(B, P) < 2, and the response channel buffers as many responses as
\* there are workers launched.
C8_StartLaunchesMinWorkers ==
    /\ Min(batchSize, maxProcs) < 2 => chans = <<>> /\ workers = EmptyBag /\ reqChan = 0
    /\ \A c \in 1..Len(chans) :
          /\ NumWorkersOf(c) <= Min(batchSize, maxProcs)
          /\ chans[c].cap = NumWorkersOf(c)

\* the part of C8 about the single-threaded mode
C8_NoWorkersBelowTwo ==
    Min(batchSize, maxProcs) < 2 => chans = <<>> /\ workers = EmptyBag /\ reqChan = 0

\* some worker of a pool that Stop was called on has not ended
SomeStoppedWorkerRuns ==
    \E c \in 1..Len(chans) :
        chans[c].stopped /\ \E st \in WorkersOf(c) : st.pc # "exit"

\* C9: after Stop, called with no batch call in flight, every worker of the
\* stopped pool leaves its receive loop and ends, none stays blocked on a
\* send or a receive (a runtime fault ends the process, and the workers
\* with it).
C9_StopReleasesWorkers ==
    SomeStoppedWorkerRuns ~> (~SomeStoppedWorkerRuns \/ fault)

\* the workers of a stopped pool run after Stop, and later have all ended
C9_Witness ==
    /\ Len(chans) >= 1
    /\ chans[1].stopped
    /\ WorkersOf(1) # {}
    /\ \A st \in WorkersOf(1) : st.pc = "exit"
    /\ nReqs > 0

\* C10: Stop on a Batcher that is not started changes nothing; Stop on a
\* started one closes a request channel that is open, never a closed one,
\* and clears both channel references, which are nil together; with them
\* nil a batch call takes the single-threaded path, and a Start with
\* min(B, P) >= 2 makes a new open channel pair with its workers waiting.
C10_StopIdempotent ==
    [][/\ (reqChan = 0) <=> (respChan = 0)
       /\ Stop =>
            /\ ~fault'
            /\ reqChan = 0 => UNCHANGED vars
            /\ reqChan # 0 =>
                  /\ ~chans[reqChan].closed
                  /\ chans'[reqChan].closed
                  /\ reqChan' = 0 /\ respChan' = 0
                  /\ \A c \in 1..Len(chans) :
                        c # reqChan => chans'[c] = chans[c]
       /\ (BatchGradient \/ BatchRGradient) /\ reqChan = 0 =>
            path' = "single" /\ disps' = disps
       /\ Start /\ Min(batchSize, maxProcs) >= 2 =>
            /\ reqChan' = Len(chans) + 1 /\ respChan' = reqChan'
            /\ ~chans'[reqChan'].closed
            /\ BagIn(IdleWorker(reqChan'), workers')]_vars

\* a Batcher was started, stopped and started again
C10_Witness ==
    /\ Len(chans) = 2
    /\ chans[1].closed
    /\ reqChan = 2
    /\ ~chans[2].closed

-----------------------------------------------------------------------------
\* Properties of the buffers of the Batcher and of the cache.

\* every buffer 1..n is in the pool once or is the result out (0: nil), and
\* not both
Reclaimed(pool, out, n) ==
    /\ Range(pool) \cup (IF out = 0 THEN {} ELSE {out}) = 1..n
    /\ out \notin Range(pool)
    /\ Cardinality(Range(pool)) = Len(pool)

\* C11: when a batch call over n >= 1 samples returns, after any sequence
\* of earlier BatchGradient/BatchRGradient calls, the only buffers that are
\* not in a free pool are the result buffers that the call returns, and no
\* buffer that was ever allocated is lost or is in a pool twice.
C11_BuffersReclaimed ==
    (AtReturn /\ Len(samples) >= 1) =>
        /\ gradOut # 0
        /\ rv => rgradOut # 0
        /\ Reclaimed(gradients, gradOut, Len(gradVal))
        /\ Reclaimed(rGradients, rgradOut, Len(rgradVal))

\* the part of C11 about the plain gradients
C11_PlainReclaimed ==
    (AtReturn /\ Len(samples) >= 1) =>
        gradOut # 0 /\ Reclaimed(gradients, gradOut, Len(gradVal))

\* every component of the buffer contents v is zero
AllZero(v) == \A i \in DOMAIN v : v[i] = 0

\* owner o returns from Alloc, or from AllocR, in this step
AllocReturns(o) ==
    ownerPc[o] \in {"alloc_locked", "alloc_zero"} /\ ownerPc'[o] = "idle"
AllocRReturns(o) ==
    ownerPc[o] \in {"allocr_locked", "allocr_zero"} /\ ownerPc'[o] = "idle"

\* C12: the buffer that Alloc or AllocR returns is all-zero when it is
\* returned, whether it is fresh or comes from the pool, where every buffer
\* was freed with non-zero values in it; under every interleaving of the
\* owners' calls.
C12_AllocReturnsZero ==
    [][\A o \in Owners :
          /\ AllocReturns(o) =>
                 AllZero(gradVal'[ownerHeld'[o][Len(ownerHeld'[o])]])
          /\ AllocRReturns(o) =>
                 AllZero(rgradVal'[ownerHeldR'[o][Len(ownerHeldR'[o])]])]_vars

\* Alloc has taken from the pool a buffer that was freed with non-zero
\* values, while another owner is inside a call, and is about to zero and
\* return it
C12_Witness ==
    \E o \in Owners :
        /\ ownerPc[o] = "alloc_zero"
        /\ ~AllZero(gradVal[ownerRes[o]])
        /\ \E p \in Owners : p # o /\ ownerPc[p] # "idle"

\* C13: in every reachable state of the cache, with owners that free only
\* buffers they hold and free them once, each free pool is at most as long
\* as the number of buffers of its kind that the cache has freshly
\* allocated.
C13_PoolWithinAllocated ==
    /\ Len(gradients) <= Len(gradVal)
    /\ Len(rGradients) <= Len(rgradVal)

\* both R buffers ever allocated have been freed and the R pool is as long
\* as it can be, one buffer being in it twice, the other not at all
C13_Witness ==
    /\ Len(rgradVal) = 2
    /\ Len(rGradients) = 2
    /\ rGradients[1] = rGradients[2]
    /\ Len(gradients) = Len(gradVal)
    /\ Len(gradVal) >= 1


-----------------------------------------------------------------------------
\* Properties of the ConvGrowLayer (SpecGrow).

\* the coordinates of the elements of the tensor t
Coords(t) ==
    {<<x, y, z>> : x \in 0..(t.Width - 1), y \in 0..(t.Height - 1),
                   z \in 0..(t.Depth - 1)}

\* the invariant of the data model; the layer's FilterCount is the depth of
\* its output
ShapeInvariant ==
    /\ output.Width = convLayer.output.Width * inverseStride
    /\ output.Height = convLayer.output.Height * inverseStride
    /\ convLayer.output.Depth = inverseStride * inverseStride * output.Depth
    /\ convDownstream.Width = convLayer.output.Width
    /\ convDownstream.Height = convLayer.output.Height
    /\ convDownstream.Depth = convLayer.output.Depth
    /\ Len(convDownstream.Data) = Len(convLayer.output.Data)

\* the inner coordinate that the output coordinate c corresponds to, for the
\* stride s and the filter count F
Remap(c, s, F) ==
    <<c[1] \div s, c[2] \div s, ((c[1] % s) + s * (c[2] % s)) * F + c[3]>>

\* the tensor out is the remap of the tensor in: every element of out is the
\* element of in at the remapped coordinate, which lies inside in
IsRemapOf(out, in, s, F) ==
    \A c \in Coords(out) :
        /\ Remap(c, s, F) \in Coords(in)
        /\ Get(out, c[1], c[2], c[3]) =
               Get(in, Remap(c, s, F)[1], Remap(c, s, F)[2], Remap(c, s, F)[3])

\* every coordinate of in is the remap of exactly one coordinate of out
RemapBijective(out, in, s, F) ==
    \A d \in Coords(in) :
        Cardinality({c \in Coords(out) : Remap(c, s, F) = d}) = 1

\* the example: an inner output of 2x2x4 whose cell (0,0) holds 10, 20, 30,
\* 40, with s = 2 and F = 1
IsExample ==
    /\ convLayer.output.Width = 2
    /\ convLayer.output.Height = 2
    /\ convLayer.output.Depth = 4
    /\ inverseStride = 2
    /\ output.Depth = 1
    /\ \A z \in 0..3 : Get(convLayer.output, 0, 0, z) = 10 * (z + 1)

ExampleOutput ==
    /\ Get(output, 0, 0, 0) = 10
    /\ Get(output, 1, 0, 0) = 20
    /\ Get(output, 0, 1, 0) = 30
    /\ Get(output, 1, 1, 0) = 40

\* C14: after PropagateForward, every element (x, y, z) of the output equals
\* the element (x div s, y div s, ((x mod s) + s*(y mod s))*F + z) of the
\* inner output, every such read lies inside the inner output, each inner
\* element is read by exactly one output coordinate, and the example of the
\* 2x2x4 inner output gives 10, 20, 30, 40 at (0,0), (1,0), (0,1), (1,1).
C14_ForwardRemap ==
    done = "forward" =>
        /\ IsRemapOf(output, convLayer.output, inverseStride, output.Depth)
        /\ RemapBijective(output, convLayer.output, inverseStride, output.Depth)
        /\ IsExample => ExampleOutput

\* the same for the layers that satisfy the shape invariant
C14_ForwardRemapOfShaped ==
    (done = "forward" /\ ShapeInvariant) =>
        /\ IsRemapOf(output, convLayer.output, inverseStride, output.Depth)
        /\ RemapBijective(output, convLayer.output, inverseStride, output.Depth)
        /\ IsExample => ExampleOutput

\* the forward pass of any layer copies from inside the inner output
C14_ForwardReadsInside ==
    done = "forward" =>
        IsRemapOf(output, convLayer.output, inverseStride, output.Depth)

\* the example has been run
C14_ExampleRun == done = "forward" /\ IsExample /\ ExampleOutput /\ ShapeInvariant


\* every cell of the inner gradient buffer has been written exactly once
WrittenOnce == \A k \in DOMAIN convDownstream.Data : written[k] = 1

\* what C15 asks of a finished backward pass
ScatterIsInverse ==
    /\ Len(written) = Len(convDownstream.Data)
    /\ WrittenOnce
    /\ output.Depth > 0 =>
           IsRemapOf(downstream, convDownstream, inverseStride, output.Depth)
    /\ innerRead = convDownstream.Data

\* C15: after SetDownstreamGradient(d) and PropagateBackward every cell of
\* the inner gradient buffer has been written exactly once, the forward remap
\* of the scattered buffer is d element for element, and the inner layer's
\* backward pass starts only after the whole scatter and reads its result.
C15_ScatterInverse ==
    /\ done = "backward" => ScatterIsInverse
    /\ growPc = "bwd" => innerRead = <<>>

\* the same for the layers that satisfy the shape invariant
C15_ScatterInverseOfShaped ==
    /\ (done = "backward" /\ ShapeInvariant) => ScatterIsInverse
    /\ growPc = "bwd" => innerRead = <<>>

\* a backward pass of a layer of more than one cell per inner cell is over
C15_ScatterRun ==
    /\ done = "backward"
    /\ ShapeInvariant
    /\ inverseStride = 2
    /\ Len(convDownstream.Data) = 8
    /\ ScatterIsInverse

\* C16: every ConvGrowLayer, made by NewConvGrowLayer, by Alias or by a
\* successful DeserializeConvGrowLayer, has an output of inverseStride times
\* the width and the height of the inner output and of FilterCount channels,
\* an inner output of inverseStride^2 * FilterCount channels, and a gradient
\* buffer of the shape of the inner output.
C16_ShapeInvariant == growPc # "none" => ShapeInvariant

\* the layers that NewConvGrowLayer makes satisfy it
C16_NewLayerShaped == done = "new" => ShapeInvariant

\* Alias keeps it
C16_AliasKeepsShape ==
    [][(Alias /\ ShapeInvariant) => ShapeInvariant']_vars

\* the stride field is truncated, or holds the stride 0, or the inner payload
\* is malformed
Malformed(data) ==
    \/ Len(data.stride) < 4
    \/ ~data.inner.ok
    \/ LittleEndian(data.stride) = 0

\* C17: DeserializeConvGrowLayer, on every input, returns a layer or returns
\* an error and no layer and never crashes; it returns an error when the
\* stride field is truncated or holds a stride such as 0 and when the inner
\* payload is malformed.
C17_DeserializeReturns ==
    [][\A data \in SerializedInputs :
           DeserializeConvGrowLayer(data) =>
               /\ ~fault'
               /\ err' <=> growPc' = "none"
               /\ Malformed(data) => err']_vars

\* the same for the inputs with a stride other than 0
C17_NonZeroStrideReturns ==
    [][\A data \in SerializedInputs :
           (/\ DeserializeConvGrowLayer(data)
            /\ ~(Len(data.stride) = 4 /\ LittleEndian(data.stride) = 0)) =>
               /\ ~fault'
               /\ err' <=> growPc' = "none"
               /\ Malformed(data) => err']_vars


-----------------------------------------------------------------------------
\* Locking of the pools (SpecCache).

\* every access of owner o to a pool is made under the mutex of that pool
AccessesLocked(o) == \A a \in PoolAccesses(o) : a[1] \in PoolsLocked(o)

\* an owner that zeroes a reused buffer holds no mutex
ZeroingUnlocked(o) ==
    ownerPc[o] \in {"alloc_zero", "allocr_zero"} => PoolsLocked(o) = {}

\* two owners are about to access one pool, one of them writing, and one of
\* them without the mutex of that pool
Races(o1, o2) ==
    \E a1 \in PoolAccesses(o1), a2 \in PoolAccesses(o2) :
        /\ o1 # o2
        /\ a1[1] = a2[1]
        /\ "write" \in {a1[2], a2[2]}
        /\ ~(a1[1] \in PoolsLocked(o1) /\ a2[1] \in PoolsLocked(o2))

\* C18: every read and write of the plain pool, its length included, is made
\* under the plain pool's mutex and every read and write of the R-gradient
\* pool under the R-gradient pool's mutex, a reused buffer is zeroed after
\* the mutex is released, and no two concurrent calls access one pool, one
\* of them writing, without a common lock.
C18_PoolAccessLocked ==
    /\ \A o \in Owners : AccessesLocked(o) /\ ZeroingUnlocked(o)
    /\ \A o1, o2 \in Owners : ~Races(o1, o2)

\* the part of C18 about writes and about zeroing
C18_WritesLocked ==
    \A o \in Owners :
        /\ \A a \in PoolAccesses(o) : a[2] = "write" => a[1] \in PoolsLocked(o)
        /\ ZeroingUnlocked(o)

\* an AllocR call is about to read the length of the plain pool while a
\* Free call is about to append to it
C18_RaceReached ==
    \E o1, o2 \in Owners :
        /\ ownerPc[o1] = "allocr_locked"
        /\ ownerPc[o2] = "free_locked"
        /\ Races(o1, o2)


-----------------------------------------------------------------------------
\* Workers of a Batcher that is started more than once (FairSpec), and the
\* buffers of a Batcher that is never started (Spec).

\* some worker has not ended
SomeWorkerRuns == \E st \in BagToSet(workers) : st.pc # "exit"

\* a worker waits on a request channel that is open and that the Batcher no
\* longer refers to: no Stop can close it
OrphanWaits ==
    \E st \in BagToSet(workers) :
        st.pc = "recv" /\ ~chans[st.ch].closed /\ reqChan # st.ch

\* C19: whatever Start and Stop calls were made with no batch in flight,
\* Start on a started Batcher included, once the Batcher is stopped and is
\* not started again every worker that any Start launched ends; none stays
\* blocked on a request channel that is never closed.
C19_StopReleasesAllWorkers ==
    (reqChan = 0 /\ SomeWorkerRuns) ~> (~SomeWorkerRuns \/ reqChan # 0 \/ fault)

\* the Batcher is stopped, no call is in flight, and a worker of an earlier
\* Start waits on a channel that no Stop can close
C19_OrphanAfterStop ==
    /\ reqChan = 0
    /\ callerPc = "idle"
    /\ nReqs = 0
    /\ OrphanWaits


\* C20: a Batcher that has launched no workers runs every batch call on the
\* single-threaded path, and over all its calls the cache allocates at most
\* 2 plain buffers: once 2 exist, every Alloc of a per-sample buffer takes
\* one from the free pool.
C20_SingleModeTwoBuffers ==
    [][chans' = <<>> =>
          /\ Len(gradVal') <= 2
          /\ (CallerAlloc /\ Len(gradVal) = 2) =>
                 /\ Len(gradVal') = 2
                 /\ Len(gradients') = Len(gradients) - 1
                 /\ resp'.grad = gradients[Len(gradients)]]_vars

\* a Batcher that never launched workers has finished calls of three samples
\* or more in all with two plain buffers
C20_Witness ==
    /\ chans = <<>>
    /\ callerPc = "idle"
    /\ nReqs >= 3
    /\ Len(gradVal) = 2
    /\ lastGradResult # 0

====
